---- MODULE Spec2Model ----
(***************************************************************************)
(* Model of ad_manager.py (class ADManager): the target resolver            *)
(* (get_computers_in_ou, find_computers_by_pattern, verify_hostname,        *)
(* convert_pattern_to_ldap), the remote command executor                    *)
(* (execute_remote_command) and the dispatch coordinator                    *)
(* (run_command_on_ou, run_command_by_pattern).                             *)
(*                                                                         *)
(* Python strings are sequences of one-character strings, ordered by code   *)
(* point.  Python None is the one-element sequence PyNone, which is no      *)
(* string; a directory attribute the entry does not carry is NoAttr.        *)
(***************************************************************************)
EXTENDS Integers, Sequences, FiniteSets, TLC

\* ------------------------------------------------------------------ bounds
\* Largest number of computer records the directory holds (and so the
\* largest number of targets, threads and outcomes of one round).
MaxRecords == 2
\* Longest pattern handed to convert_pattern_to_ldap.
MaxLen == 4

\* ------------------------------------------------------------- Python values
PyNone == <<"<None>">>
NoAttr == <<"<absent>">>

Chars == {"$", "*", "-", "/", "0", "1", "A", "B", "N", "U", " ", "?",
          "a", "b", "e", "h", "i", "k", "l", "m", "n", "o", "s", "t", "v",
          "w", "x"}

\* ord(c): the code point, which orders Python strings.
Ord(c) ==
  CASE c = "$" -> 36 [] c = "*" -> 42 [] c = "-" -> 45 [] c = "/" -> 47
    [] c = "0" -> 48 [] c = "1" -> 49 [] c = "?" -> 63 [] c = "A" -> 65
    [] c = "B" -> 66 [] c = "N" -> 78 [] c = "U" -> 85 [] c = "a" -> 97
    [] c = "e" -> 101 [] c = "h" -> 104 [] c = "k" -> 107 [] c = "n" -> 110
    [] c = "o" -> 111 [] c = "w" -> 119 [] c = "x" -> 120

IsString(v) == v \in Seq(Chars)

\* str(v): a string is itself, str(None) is the four letters 'None'.
PyStr(v) == IF v = PyNone THEN <<"N", "o", "n", "e">> ELSE v

\* Truth value of an optional string: None and '' are false.
Truthy(v) == v # PyNone /\ v # <<>>

\* a < b on Python strings (lexicographic by code point).
RECURSIVE StrLess(_, _)
StrLess(a, b) ==
  IF b = <<>> THEN FALSE
  ELSE IF a = <<>> THEN TRUE
  ELSE IF Head(a) = Head(b) THEN StrLess(Tail(a), Tail(b))
  ELSE Ord(Head(a)) < Ord(Head(b))

EndsWith(s, c) == Len(s) > 0 /\ s[Len(s)] = c

\* ------------------------------------------------ convert_pattern_to_ldap
\* pattern.split('-')
RECURSIVE SplitDash(_)
SplitDash(s) ==
  IF \A i \in 1..Len(s) : s[i] # "-" THEN <<s>>
  ELSE LET k == CHOOSE i \in 1..Len(s) :
                  s[i] = "-" /\ \A j \in 1..(i - 1) : s[j] # "-"
       IN <<SubSeq(s, 1, k - 1)>> \o SplitDash(SubSeq(s, k + 1, Len(s)))

\* '-'.join(parts)
RECURSIVE JoinDash(_)
JoinDash(parts) ==
  IF parts = <<>> THEN <<>>
  ELSE IF Len(parts) = 1 THEN parts[1]
  ELSE parts[1] \o <<"-">> \o JoinDash(Tail(parts))

\* '**' in s
HasDoubleStar(s) == \E i \in 1..(Len(s) - 1) : s[i] = "*" /\ s[i + 1] = "*"

\* '*' in s
HasStar(s) == \E i \in 1..Len(s) : s[i] = "*"

\* s.replace('**', ''): non-overlapping occurrences, left to right.
RECURSIVE RemoveDoubleStar(_)
RemoveDoubleStar(s) ==
  IF Len(s) >= 2 /\ s[1] = "*" /\ s[2] = "*"
    THEN RemoveDoubleStar(SubSeq(s, 3, Len(s)))
  ELSE IF s = <<>> THEN <<>>
  ELSE <<s[1]>> \o RemoveDoubleStar(Tail(s))

convert_pattern_to_ldap(pattern) ==
  LET parts == SplitDash(pattern) IN
  IF Len(parts) > 1 THEN
    LET base        == SubSeq(parts, 1, Len(parts) - 1)
        number_part == parts[Len(parts)]
    IN IF HasDoubleStar(number_part)
         THEN JoinDash(base) \o <<"-">> \o RemoveDoubleStar(number_part) \o <<"*">>
       ELSE IF HasStar(number_part)
         THEN JoinDash(base) \o <<"-">> \o number_part
       ELSE pattern
  ELSE pattern

\* ------------------------------------------------------------ the directory
\* The computer records the directory service may hold.  ou is the container
\* of the record ("C" lies below "P", both below the base DN), dn its
\* distinguished name; cn and dNSHostName are NoAttr when the entry does not
\* carry the attribute and PyNone when it carries it with no value.
Universe ==
  { [dn |-> <<"x", "0">>, ou |-> "P", cn |-> <<"A", "-", "0">>,
     name |-> <<"A", "-", "0">>, sAMAccountName |-> <<"A", "-", "0", "$">>,
     dNSHostName |-> <<"h", "0">>],
    [dn |-> <<"x", "1">>, ou |-> "C", cn |-> <<"A", "-", "0">>,
     name |-> <<"A", "-", "0">>, sAMAccountName |-> <<"A", "-", "0", "0", "$">>,
     dNSHostName |-> <<"h", "1">>],
    [dn |-> <<"x", "0", "0">>, ou |-> "P", cn |-> <<"0">>,
     name |-> <<"0">>, sAMAccountName |-> <<"0", "$">>,
     dNSHostName |-> PyNone],
    [dn |-> <<"x", "1", "1">>, ou |-> "C", cn |-> NoAttr,
     name |-> <<"B", "1">>, sAMAccountName |-> <<"B", "$">>,
     dNSHostName |-> NoAttr] }

Directories == {d \in SUBSET Universe : Cardinality(d) <= MaxRecords}

\* Containers the operator can select ("P" holds "C").
OUs == {"P", "C"}
InSubtree(ou, base) == ou = base \/ (base = "P" /\ ou = "C")

\* What the operator can type at the pattern and hostname prompts.
Patterns == { <<"A", "-", "*">>, <<"A", "-", "0", "*", "*">>, <<"*">>,
              <<"B">>, <<"B", "$">> }
Hostnames == { <<"B">>, <<"A", "-", "0">>, <<"*">> }

\* LDAP equality/substring match of an attribute value against a filter
\* value in which '*' stands for any run of characters.
RECURSIVE Glob(_, _)
Glob(p, t) ==
  IF p = <<>> THEN t = <<>>
  ELSE IF Head(p) = "*"
    THEN Glob(Tail(p), t) \/ (t # <<>> /\ Glob(p, Tail(t)))
  ELSE t # <<>> /\ Head(t) = Head(p) /\ Glob(Tail(p), Tail(t))

\* Entries matching (&(objectClass=computer)(|(name=f)(sAMAccountName=f)))
\* below the base DN.
MatchingName(dir, f) ==
  {r \in dir : Glob(f, r.name) \/ Glob(f, r.sAMAccountName)}

\* The entries a search with LEVEL scope would match: the direct members.
MatchingOU_one_level(dir, ou_dn) == {r \in dir : r.ou = ou_dn}

\* Entries matching (objectClass=computer) with SUBTREE scope below ou_dn.
MatchingOU(dir, ou_dn) == {r \in dir : InSubtree(r.ou, ou_dn)}

\* The orders in which the server may return a set of entries.
Orders(S) ==
  {f \in [1..Cardinality(S) -> S] :
     \A i, j \in 1..Cardinality(S) : i # j => f[i] # f[j]}

\* -------------------------------------------------------------- sorting
\* Position of element i after a stable sort by keys.
Rank(keys, i) ==
  1 + Cardinality({j \in 1..Len(keys) :
        StrLess(keys[j], keys[i]) \/ (keys[j] = keys[i] /\ j < i)})

\* list.sort(key=...): seq reordered by a stable sort on keys.
SortByKey(seq, keys) ==
  [k \in 1..Len(seq) |-> seq[CHOOSE i \in 1..Len(seq) : Rank(keys, i) = k]]

\* ------------------------------------------------------- projecting entries
\* The dict get_computers_in_ou builds from an entry.
ComputerInOU(entry) ==
  [name     |-> IF entry.cn # NoAttr THEN PyStr(entry.cn)
                ELSE <<"U", "n", "k", "n", "o", "w", "n">>,
   hostname |-> IF entry.dNSHostName # NoAttr THEN PyStr(entry.dNSHostName)
                ELSE PyNone,
   dn       |-> entry.dn]

\* The dict find_computers_by_pattern builds from an entry.
ComputerByPattern(entry) ==
  [name     |-> IF entry.cn # NoAttr THEN PyStr(entry.cn)
                ELSE <<"N", "/", "A">>,
   hostname |-> IF entry.dNSHostName # NoAttr THEN PyStr(entry.dNSHostName)
                ELSE PyNone]

NameOf(c) == c.name
Names(cs) == [i \in 1..Len(cs) |-> NameOf(cs[i])]

\* computers.sort(key=lambda x: x['name'])
SortComputers(cs) == SortByKey(cs, Names(cs))

\* --------------------------------------------------------------- resolvers
\* Result of a resolver call: the computers returned, the entries they were
\* built from (in the same order), the name filters sent to the directory
\* in order, and how the lookup went: "ok", "disconnected" (ensure_connected
\* answered False) or "raised" (a search raised and the except clause ran).
Resolved(cs, es, fs, how) ==
  [computers |-> cs, origin |-> es, searches |-> fs, lookup |-> how]

\* get_computers_in_ou(ou_dn): connected is ensure_connected()'s answer, ok
\* is FALSE when the search raises, entries is what the search returns.
get_computers_in_ou(ou_dn, connected, ok, entries) ==
  IF ~connected THEN Resolved(<<>>, <<>>, <<>>, "disconnected")
  ELSE IF ~ok THEN Resolved(<<>>, <<>>, <<>>, "raised")
  ELSE Resolved([i \in 1..Len(entries) |-> ComputerInOU(entries[i])],
                entries, <<>>, "ok")

\* The filter of the retry: f"{pattern}$".
WithDollar(pattern) == pattern \o <<"$">>

\* The resolver without the retry: the first search decides.
find_without_retry(pattern, connected, ok1, entries1, ok2, entries2) ==
  IF ~connected THEN Resolved(<<>>, <<>>, <<>>, "disconnected")
  ELSE IF ~ok1 THEN Resolved(<<>>, <<>>, <<pattern>>, "raised")
  ELSE
    LET first == [i \in 1..Len(entries1) |-> ComputerByPattern(entries1[i])]
    IN Resolved(SortComputers(first), SortByKey(entries1, Names(first)),
                <<pattern>>, "ok")

\* find_computers_by_pattern(pattern): ok1/entries1 are the outcome of the
\* first search, ok2/entries2 of the search with the $ suffix.
find_computers_by_pattern(pattern, connected, ok1, entries1, ok2, entries2) ==
  IF ~connected THEN Resolved(<<>>, <<>>, <<>>, "disconnected")
  ELSE IF ~ok1 THEN Resolved(<<>>, <<>>, <<pattern>>, "raised")
  ELSE
    LET first == [i \in 1..Len(entries1) |-> ComputerByPattern(entries1[i])]
    IN IF first = <<>> /\ ~EndsWith(pattern, "$")
         THEN IF ~ok2
                THEN Resolved(<<>>, <<>>, <<pattern, WithDollar(pattern)>>,
                              "raised")
              ELSE
                LET second == [i \in 1..Len(entries2) |->
                                 ComputerByPattern(entries2[i])]
                IN Resolved(SortComputers(second),
                            SortByKey(entries2, Names(second)),
                            <<pattern, WithDollar(pattern)>>, "ok")
       ELSE Resolved(SortComputers(first), SortByKey(entries1, Names(first)),
                     <<pattern>>, "ok")

\* What a search leaves in ldap_conn.entries.  The connection is created
\* without raise_exceptions (lines 115-122), so a search the server ends with
\* an error result (served = FALSE) raises nothing: search() answers False,
\* which no caller looks at, and entries is empty.
Entries(served, found) == IF served THEN found ELSE <<>>

\* Number of searches of a call of find_computers_by_pattern that returned:
\* all it issued, but for the last one when that one raised.
Returned(r) ==
  IF r.lookup = "raised" THEN Len(r.searches) - 1 ELSE Len(r.searches)

\* The history of a resolver call of which the searches that returned, in
\* the order they were issued, were served or not: the call is recorded as
\* "refused" when one of them ended with an error result.
Refused(r, served) ==
  IF \E k \in DOMAIN served : ~served[k]
    THEN [r EXCEPT !.lookup = "refused"]
  ELSE r

\* Console lines about the lookup.
NotConnectedLine == "Not connected to AD server. Please reconnect."
ErrorQueryingLine == "Error querying computers in OU"
ErrorSearchingLine == "Error searching computers"
TryDifferentPatternLine == "No computers found. Try a different pattern."
NoneInOULine == "No computers found in selected OU"
NoneMatchingLine == "No computers found matching the pattern"
HostnameNotFoundLine == "Hostname not found in AD. Try again."

\* The lines get_computers_in_ou prints about a call that went as r says.
printed_by_get_computers_in_ou(r) ==
  IF r.lookup = "disconnected" THEN <<NotConnectedLine>>
  ELSE IF r.lookup = "raised" THEN <<ErrorQueryingLine>>
  ELSE <<>>

\* The lines find_computers_by_pattern prints about a call that went as r says.
printed_by_find_computers_by_pattern(r) ==
  IF r.lookup = "disconnected" THEN <<NotConnectedLine>>
  ELSE IF r.lookup = "raised" THEN <<ErrorSearchingLine>>
  ELSE IF r.computers = <<>> THEN <<TryDifferentPatternLine>>
  ELSE <<>>

\* ------------------------------------------------------------------ state
VARIABLES
  directory,       \* the computer records the directory service holds
  pc,              \* where the main thread is (see the actions)
  op,              \* the menu operation in progress: "none", "ou", "pattern", "host"
  pattern,         \* what the operator typed at the pattern/hostname prompt
  searches,        \* name filters sent to the directory by the last resolver call
  lookup,          \* history: how that call's lookups went ("none" before one)
  computers,       \* the resolved target list
  origin,          \* history: the entry each element of computers was built from
  current_target,  \* self.current_target
  threads,         \* number of threads created and started
  upc,             \* upc[i]: where thread i is inside execute_remote_command
  error_msg,       \* error_msg[i]: str(e) of the exception thread i is handling
  remote,          \* history: what session.run_cmd returned to thread i
  sessions,        \* history: number of winrm sessions thread i created
  emitted,         \* history: the outcomes thread i has put, in order
  scan,            \* index of the thread any(t.is_alive() ...) looks at next
  completed,       \* the local variable completed of run_command_by_pattern
  results_queue,   \* queue.Queue(): outcomes put and not yet taken
  results,         \* the list results
  cv_pattern,      \* argument of a call of convert_pattern_to_ldap
  cv_result,       \* its return value (PyNone before the call returns)
  submitted,       \* history: times thread i came to submit its command
  console,         \* what the resolver and its caller printed about the lookup
  answer,          \* history: the operator's answer at the confirmation prompt
  tables,          \* the results tables printed by the operation
  csv_files,       \* the CSV files written by the operation
  domain_username, \* self.domain_username
  domain_password, \* self.domain_password
  found_before,    \* history: what the previous of two resolver calls returned
  selected_ou,     \* the local ou_dn of run_command_on_ou ("none" outside it)
  replies,         \* history: the entries each search of the last verify_hostname returned
  verified,        \* history: what that call returned ("none" before one)
  target_before    \* history: self.current_target when that call began

vars == <<directory, pc, op, pattern, searches, lookup, computers, origin,
          current_target, threads, upc, error_msg, remote, sessions, emitted,
          scan, completed, results_queue, results, cv_pattern, cv_result,
          submitted, console, answer, tables, csv_files, domain_username,
          domain_password, found_before, selected_ou, replies, verified,
          target_before>>

resolverVars == <<pattern, searches, lookup, computers, origin, selected_ou>>
unitVars == <<upc, error_msg, remote, sessions, emitted, submitted>>
convertVars == <<cv_pattern, cv_result>>
reportVars == <<console, answer, tables, csv_files>>
credentialVars == <<domain_username, domain_password>>
hostVars == <<replies, verified, target_before>>
otherVars == <<reportVars, credentialVars, found_before, hostVars>>

Units == 1..MaxRecords

\* str(e) of the exceptions the console and the remote session can raise.
ErrorMessages == { <<>>, <<"e">> }

\* What session.run_cmd can return: exit status, std_out and std_err bytes.
\* The number of characters of an output the results table shows.
TruncateAt == 200

\* The second result has an output longer than the results table shows.
LongOutputLen == TruncateAt + 1
RemoteResults ==
  { [status_code |-> 0, std_out |-> <<>>,         std_err |-> <<101>>],
    [status_code |-> 0,
     std_out |-> [k \in 1..LongOutputLen |-> IF k = 1 THEN 255 ELSE 111],
     std_err |-> <<>>],
    [status_code |-> 1, std_out |-> <<111>>,      std_err |-> <<101, 255>>] }
NoResult == [status_code |-> -1, std_out |-> <<>>, std_err |-> <<>>]

\* bytes.decode('utf-8', errors='replace'): an ASCII byte is its character,
\* an invalid byte becomes the replacement character (written "?").
DecodeByte(b) ==
  CASE b = 101 -> "e" [] b = 111 -> "o" [] OTHER -> "?"
Decode(bytes) == [i \in 1..Len(bytes) |-> DecodeByte(bytes[i])]

\* 'No hostname available'
NoHostnameAvailable ==
  <<"N", "o", " ", "h", "o", "s", "t", "n", "a", "m", "e", " ",
    "a", "v", "a", "i", "l", "a", "b", "l", "e">>

Outcome(computer, status, output) ==
  [computer |-> computer.name, status |-> status, output |-> output]

\* What connect() stored from the connection details (lines 97-98).
Username == <<"u">>
Password == <<"p">>

\* Nothing printed, asked or written yet by the operation, and the
\* credentials as connect() left them.
IdleOperator ==
  /\ console = <<>>
  /\ answer = "none"
  /\ tables = <<>>
  /\ csv_files = <<>>
  /\ domain_username = Username
  /\ domain_password = Password
  /\ found_before = <<>>
  /\ replies = <<>>
  /\ verified = "none"
  /\ target_before = PyNone

\* The state of the locals of a round before any round has started.
IdleRound ==
  /\ threads = 0
  /\ upc = [i \in Units |-> "idle"]
  /\ error_msg = [i \in Units |-> <<>>]
  /\ remote = [i \in Units |-> NoResult]
  /\ sessions = [i \in Units |-> 0]
  /\ emitted = [i \in Units |-> <<>>]
  /\ submitted = [i \in Units |-> 0]
  /\ scan = 1
  /\ completed = 0
  /\ results_queue = <<>>
  /\ results = <<>>

Init ==
  /\ directory \in Directories
  /\ pc = "menu"
  /\ op = "none"
  /\ pattern = <<>>
  /\ searches = <<>>
  /\ lookup = "none"
  /\ computers = <<>>
  /\ origin = <<>>
  /\ selected_ou = "none"
  /\ current_target = PyNone
  /\ IdleRound
  /\ IdleOperator
  /\ cv_pattern = <<>>
  /\ cv_result = PyNone

\* ------------------------------------------------- execute_remote_command
\* Thread i runs execute_remote_command(computers[i], command, results_queue).
Alive(i) == upc[i] \in {"check", "session", "run", "inner", "outer", "return"}

\* results_queue.put(outcome) by thread i, which then is at position next.
Put(i, outcome, next) ==
  /\ results_queue' = Append(results_queue, outcome)
  /\ emitted' = [emitted EXCEPT ![i] = Append(@, outcome)]
  /\ upc' = [upc EXCEPT ![i] = next]

\* An exception with message msg takes thread i to the handler at position h.
Raise(i, msg, h) ==
  /\ upc' = [upc EXCEPT ![i] = h]
  /\ error_msg' = [error_msg EXCEPT ![i] = msg]
  /\ UNCHANGED <<results_queue, emitted>>

\* Lines 394-405: the hostname test, the 'No hostname available' outcome,
\* and the console line that announces the connection.
CheckHostname(i) ==
  /\ upc[i] = "check"
  /\ IF ~Truthy(computers[i].hostname)
       THEN /\ Put(i, Outcome(computers[i], "Failed", NoHostnameAvailable), "return")
            /\ UNCHANGED error_msg
     ELSE \/ /\ upc' = [upc EXCEPT ![i] = "session"]
             /\ UNCHANGED <<error_msg, results_queue, emitted>>
          \/ \E msg \in ErrorMessages : Raise(i, msg, "outer")
  /\ UNCHANGED <<remote, sessions, submitted>>

\* Lines 407-414: winrm.Session(...) returns a session or raises.
CreateSession(i) ==
  /\ upc[i] = "session"
  /\ \/ /\ sessions' = [sessions EXCEPT ![i] = @ + 1]
        /\ upc' = [upc EXCEPT ![i] = "run"]
        /\ UNCHANGED <<error_msg, results_queue, emitted>>
     \/ /\ \E msg \in ErrorMessages : Raise(i, msg, "inner")
        /\ UNCHANGED sessions
  /\ UNCHANGED <<remote, submitted>>

\* The classification with the two streams exchanged.
OutcomeOfResult_streams_swapped(computer, result) ==
  IF result.status_code = 0
    THEN Outcome(computer, "Success", Decode(result.std_err))
  ELSE Outcome(computer, "Failed", Decode(result.std_out))

\* The outcome lines 425-436 build from what run_cmd returned.
OutcomeOfResult(computer, result) ==
  IF result.status_code = 0
    THEN Outcome(computer, "Success", Decode(result.std_out))
  ELSE Outcome(computer, "Failed", Decode(result.std_err))

\* Lines 417-436: encoding and announcing the command, session.run_cmd, and
\* the outcome of a call that returned; any of the calls may raise.
RunCmd(i) ==
  /\ upc[i] = "run"
  /\ \/ \E result \in RemoteResults :
          /\ remote' = [remote EXCEPT ![i] = result]
          /\ Put(i, OutcomeOfResult(computers[i], result), "return")
          /\ UNCHANGED error_msg
     \/ /\ \E msg \in ErrorMessages : Raise(i, msg, "inner")
        /\ UNCHANGED remote
  /\ submitted' = [submitted EXCEPT ![i] = @ + 1]
  /\ UNCHANGED sessions

\* A handler that starts the target over after its Failed outcome.
AfterFailure_retry == "session"

\* Where a thread is after an except clause has put its Failed outcome
\* (lines 442-446 and 452-456): at the end of the function.
AfterFailure == "return"

\* Lines 438-446: the handler of the inner try.  Its console lines may raise,
\* which the outer try catches.
InnerHandler(i) ==
  /\ upc[i] = "inner"
  /\ \/ /\ Put(i, Outcome(computers[i], "Failed", error_msg[i]), AfterFailure)
        /\ UNCHANGED error_msg
     \/ \E msg \in ErrorMessages : Raise(i, msg, "outer")
  /\ UNCHANGED <<remote, sessions, submitted>>

\* Lines 448-456: the handler of the outer try.  Nothing catches what its
\* console lines raise: the exception leaves the function and ends the thread.
OuterHandler(i) ==
  /\ upc[i] = "outer"
  /\ \/ /\ Put(i, Outcome(computers[i], "Failed", error_msg[i]), AfterFailure)
        /\ UNCHANGED error_msg
     \/ /\ upc' = [upc EXCEPT ![i] = "dead"]
        /\ UNCHANGED <<error_msg, results_queue, emitted>>
  /\ UNCHANGED <<remote, sessions, submitted>>

\* The function returns and the thread ends.
Return(i) ==
  /\ upc[i] = "return"
  /\ upc' = [upc EXCEPT ![i] = "finished"]
  /\ UNCHANGED <<error_msg, remote, sessions, emitted, submitted, results_queue>>

\* A thread that stores a reformatted user name back into self.
credentials_reformatted == <<domain_username \o <<"@">>, domain_password>>

\* self.domain_username and self.domain_password after a step of a thread:
\* lines 403 and 411 read them into the auth pair of the session, and no
\* line of execute_remote_command assigns to them.
credentials_after_step == <<domain_username, domain_password>>

execute_remote_command(i) ==
  /\ i <= threads
  /\ \/ CheckHostname(i)
     \/ CreateSession(i)
     \/ RunCmd(i)
     \/ InnerHandler(i)
     \/ OuterHandler(i)
     \/ Return(i)
  /\ domain_username' = credentials_after_step[1]
  /\ domain_password' = credentials_after_step[2]
  /\ UNCHANGED <<directory, pc, op, resolverVars, current_target, threads,
                 scan, completed, results, convertVars, reportVars,
                 found_before,
                 hostVars>>

\* ----------------------------------------------------------- verify_hostname
\* How two resolver calls went together: "ok" only when both were.
Worse(a, b) == IF a = "ok" THEN b ELSE a

\* verify_hostname(hostname): connected is its own ensure_connected(); c1,
\* ok1a, e1a, ok1b, e1b are the inputs of find_computers_by_pattern(hostname)
\* and c2, ok2, e2 those of find_computers_by_pattern(f"{hostname}$").
verify_hostname(hostname, connected, c1, ok1a, e1a, ok1b, e1b, c2, ok2, e2) ==
  IF ~connected
    THEN [result |-> FALSE, current_target |-> current_target,
          searches |-> <<>>, lookup |-> "disconnected"]
  ELSE
    LET r1 == find_computers_by_pattern(hostname, c1, ok1a, e1a, ok1b, e1b)
        r2 == find_computers_by_pattern(WithDollar(hostname), c2, ok2, e2,
                                        TRUE, <<>>)
    IN IF r1.computers # <<>>
         THEN [result |-> TRUE, current_target |-> r1.computers[1],
               searches |-> r1.searches, lookup |-> r1.lookup]
       ELSE IF r2.computers # <<>>
         THEN [result |-> TRUE, current_target |-> r2.computers[1],
               searches |-> r1.searches \o r2.searches,
               lookup |-> Worse(r1.lookup, r2.lookup)]
       ELSE [result |-> FALSE, current_target |-> current_target,
             searches |-> r1.searches \o r2.searches,
             lookup |-> Worse(r1.lookup, r2.lookup)]

\* ------------------------------------------------------- the main thread
\* The liveness test with its sense inverted.
is_alive_negated(i) == ~Alive(i)

\* The liveness test that takes a thread for alive until its function returned.
is_alive_until_returned(i) == upc[i] \notin {"idle", "finished"}

\* t.is_alive() as the main thread sees it.
is_alive(i) == Alive(i)

SetResolved(r) ==
  /\ searches' = r.searches
  /\ lookup' = r.lookup
  /\ computers' = r.computers
  /\ origin' = r.origin

\* Menu choice 4, lines 750-764: select_ou (None when the operator cancels),
\* get_computers_in_ou, the early return on an empty list, the command prompt.
run_command_on_ou ==
  /\ pc = "menu"
  /\ op' = "ou"
  /\ \/ /\ pc' = "returned"
        /\ UNCHANGED resolverVars
        /\ UNCHANGED console
     \/ \E ou_dn \in OUs, connected \in BOOLEAN, ok \in BOOLEAN,
           served \in BOOLEAN :
        \E found \in Orders(MatchingOU(directory, ou_dn)) :
          LET r == get_computers_in_ou(ou_dn, connected, ok,
                                       Entries(served, found)) IN
          /\ SetResolved(Refused(r, IF r.lookup = "ok" THEN <<served>>
                                     ELSE <<>>))
          /\ pattern' = <<>>
          /\ selected_ou' = ou_dn
          /\ console' = printed_by_get_computers_in_ou(r) \o
                          (IF r.computers = <<>> THEN <<NoneInOULine>>
                           ELSE <<>>)
          /\ pc' = IF r.computers = <<>> THEN "returned" ELSE "spawn"
  /\ UNCHANGED <<directory, current_target, threads, unitVars, scan, completed,
                 results_queue, results, convertVars, answer, tables,
                 csv_files, credentialVars, found_before,
                 hostVars>>

\* Menu choice 6, lines 813-837: the pattern prompt, find_computers_by_pattern
\* on what was typed, the early return on an empty list, the table of matches.
run_command_by_pattern ==
  /\ pc = "menu"
  /\ op' = "pattern"
  /\ \E p \in Patterns, connected \in BOOLEAN, ok1 \in BOOLEAN, ok2 \in BOOLEAN,
        served1 \in BOOLEAN, served2 \in BOOLEAN :
     \E found1 \in Orders(MatchingName(directory, p)),
        found2 \in Orders(MatchingName(directory, WithDollar(p))) :
       LET r == find_computers_by_pattern(p, connected,
                                          ok1, Entries(served1, found1),
                                          ok2, Entries(served2, found2))
           served == SubSeq(<<served1, served2>>, 1, Returned(r))
       IN
       /\ SetResolved(Refused(r, served))
       /\ pattern' = p
       /\ UNCHANGED selected_ou
       /\ console' = printed_by_find_computers_by_pattern(r) \o
                       (IF r.computers = <<>> THEN <<NoneMatchingLine>>
                        ELSE <<>>)
       /\ pc' = IF r.computers = <<>> THEN "returned" ELSE "confirm"
  /\ UNCHANGED <<directory, current_target, threads, unitVars, scan, completed,
                 results_queue, results, convertVars, answer, tables,
                 csv_files, credentialVars, found_before,
                 hostVars>>

\* What Prompt.ask(..., choices=["y", "n"], default="n") can return.
Answers == {"y", "n"}

\* A confirmation that goes on whatever was answered.
Confirmed_whatever(a) == TRUE

\* Lines 841-846: the operation goes on only when the answer is "y".
Confirmed(a) == a = "y"

\* Lines 839-849: the confirmation prompt and the command prompt.
Confirm ==
  /\ pc = "confirm"
  /\ \E a \in Answers :
       /\ answer' = a
       /\ pc' = IF Confirmed(a) THEN "spawn" ELSE "returned"
  /\ UNCHANGED <<directory, op, resolverVars, current_target, threads, unitVars,
                 scan, completed, results_queue, results, convertVars,
                 console, tables, csv_files, credentialVars, found_before,
                 hostVars>>

\* Lines 771-777 and 856-862: one turn of the loop that creates and starts a
\* thread per computer; after the last one the main thread enters the wait.
Spawn ==
  /\ pc = "spawn"
  /\ threads' = threads + 1
  /\ upc' = [upc EXCEPT ![threads + 1] = "check"]
  /\ pc' = IF threads + 1 = Len(computers) THEN "wait" ELSE "spawn"
  /\ UNCHANGED <<directory, op, resolverVars, current_target, error_msg, remote,
                 sessions, emitted, submitted, scan, completed, results_queue,
                 results, convertVars, otherVars>>

\* Lines 781-782 and 867: any(t.is_alive() for t in threads) looks at one
\* thread.  A live thread makes any() true: run_command_on_ou sleeps and
\* tests again, run_command_by_pattern goes on to count.  Past the last
\* thread any() is false and the loop ends.
PollAlive ==
  /\ pc = "wait"
  /\ IF is_alive(scan)
       THEN /\ pc' = IF op = "pattern" THEN "count" ELSE "wait"
            /\ scan' = 1
     ELSE IF scan < threads
       THEN /\ scan' = scan + 1
            /\ pc' = "wait"
     ELSE /\ scan' = 1
          /\ pc' = "drain"
  /\ UNCHANGED <<directory, op, resolverVars, current_target, threads, unitVars,
                 completed, results_queue, results, convertVars, otherVars>>

\* A count that takes every started thread for completed.
new_completed_counts_started == threads

\* Line 868: sum(1 for t in threads if not t.is_alive())
new_completed == Cardinality({i \in 1..threads : ~is_alive(i)})

\* Lines 868-872: new_completed, the progress line printed when the count
\* differs from completed, the sleep.
CountCompleted ==
  /\ pc = "count"
  /\ completed' = new_completed
  /\ pc' = "wait"
  /\ UNCHANGED <<directory, op, resolverVars, current_target, threads, unitVars,
                 scan, results_queue, results, convertVars, otherVars>>

\* Lines 785-787 and 875-877: one turn of while not results_queue.empty().
Drain ==
  /\ pc = "drain"
  /\ IF results_queue # <<>>
       THEN /\ results' = Append(results, Head(results_queue))
            /\ results_queue' = Tail(results_queue)
            /\ pc' = "drain"
     ELSE /\ pc' = "report"
          /\ UNCHANGED <<results, results_queue>>
  /\ UNCHANGED <<directory, op, resolverVars, current_target, threads, unitVars,
                 scan, completed, convertVars, otherVars>>

\* result['output'][:200] + ('...' if len(result['output']) > 200 else '')
Truncated(output) ==
  IF Len(output) > TruncateAt
    THEN SubSeq(output, 1, TruncateAt) \o <<".", ".", ".">>
  ELSE output

\* The row table.add_row makes of a result (lines 795-802 and 886-895).
TableRow(result) ==
  [computer |-> result.computer, status |-> result.status,
   output |-> Truncated(result.output)]

\* The row of pd.DataFrame(results) for a result (lines 808 and 901): the
\* dict as it was put, one column per key.
ExportRow(result) ==
  [computer |-> result.computer, status |-> result.status,
   output |-> result.output]

\* Lines 789-811 and 879-905: the results table and the CSV export.
Report ==
  /\ pc = "report"
  /\ tables' = Append(tables, [k \in 1..Len(results) |-> TableRow(results[k])])
  /\ csv_files' = Append(csv_files,
                         [k \in 1..Len(results) |-> ExportRow(results[k])])
  /\ pc' = "reported"
  /\ UNCHANGED <<directory, op, resolverVars, current_target, threads, unitVars,
                 scan, completed, results_queue, results, convertVars,
                 console, answer, credentialVars, found_before,
                 hostVars>>

\* Menu choice 5, lines 733-738: run_command_on_host starts prompting.
run_command_on_host ==
  /\ pc = "menu"
  /\ op' = "host"
  /\ pc' = "hostname"
  /\ UNCHANGED <<directory, resolverVars, current_target, threads, unitVars,
                 scan, completed, results_queue, results, convertVars, otherVars>>

\* The inputs of a call of verify_hostname on hostname h are b[1], its own
\* ensure_connected(); b[2], b[3], b[4], those of find_computers_by_pattern
\* on the hostname (connected, first search did not raise, retry did not
\* raise); b[5], b[6], those of the call on the hostname with '$'; s[1],
\* s[2], s[3], whether each of the three searches was served; and the order
\* in which each search returns its records.  Which of them the call
\* consults:
first_search_found(h, b, s) ==
  b[1] /\ b[2] /\ b[3] /\ s[1] /\ MatchingName(directory, h) # {}
retry_issued(h, b, s) ==
  b[1] /\ b[2] /\ b[3] /\ ~first_search_found(h, b, s)
retry_found(h, b, s) ==
  /\ retry_issued(h, b, s) /\ b[4] /\ s[2]
  /\ MatchingName(directory, WithDollar(h)) # {}
second_call_made(h, b, s) ==
  b[1] /\ ~first_search_found(h, b, s) /\ ~retry_found(h, b, s)
second_call_found(h, b, s) ==
  /\ second_call_made(h, b, s) /\ b[5] /\ b[6] /\ s[3]
  /\ MatchingName(directory, WithDollar(h)) # {}

\* An input that is never consulted (what a search returns that is not
\* issued or that raises) is fixed, so that every outcome is chosen once.
OneChoicePerOutcome(h, b, s) ==
  /\ ~b[1] => b[2]
  /\ ~(b[1] /\ b[2]) => b[3]
  /\ ~(b[1] /\ b[2] /\ b[3]) => s[1]
  /\ ~retry_issued(h, b, s) => b[4]
  /\ ~(retry_issued(h, b, s) /\ b[4]) => s[2]
  /\ ~second_call_made(h, b, s) => b[5]
  /\ ~(second_call_made(h, b, s) /\ b[5]) => b[6]
  /\ ~(second_call_made(h, b, s) /\ b[5] /\ b[6]) => s[3]

\* The order of a reply that holds no record or is not consulted is fixed.
OneOrderPerOutcome(S, f, consulted) ==
  consulted \/ f = (CHOOSE g \in Orders(S) : TRUE)

\* A loop that goes on to the command whatever verify_hostname returned.
Accepted_whatever(v) == TRUE

\* Lines 740-742: the loop goes on to the command prompt only when
\* verify_hostname returned True.
Accepted(v) == v.result

\* Lines 736-748: the hostname prompt ('q' leaves), verify_hostname, and for
\* an accepted hostname the command prompt and run_command_on_computer.
EnterHostname ==
  /\ pc = "hostname"
  /\ \/ /\ pc' = "returned"
        /\ UNCHANGED <<resolverVars, current_target>>
        /\ UNCHANGED <<console, hostVars>>
     \/ \E h \in Hostnames, b \in [1..6 -> BOOLEAN], s \in [1..3 -> BOOLEAN] :
        /\ OneChoicePerOutcome(h, b, s)
        /\ \E f1a \in Orders(MatchingName(directory, h)),
              f1b \in Orders(MatchingName(directory, WithDollar(h))),
              f2 \in Orders(MatchingName(directory, WithDollar(h))) :
          LET e1a == Entries(s[1], f1a)
              e1b == Entries(s[2], f1b)
              e2 == Entries(s[3], f2)
              v == verify_hostname(h, b[1], b[2], b[3], e1a, b[4], e1b,
                                   b[5], b[6], e2)
              r1 == find_computers_by_pattern(h, b[2], b[3], e1a, b[4], e1b)
              r2 == find_computers_by_pattern(WithDollar(h), b[5], b[6], e2,
                                              TRUE, <<>>)
              served == IF ~b[1] THEN <<>>
                        ELSE SubSeq(<<s[1], s[2]>>, 1, Returned(r1)) \o
                             (IF r1.computers = <<>>
                                THEN SubSeq(<<s[3]>>, 1, Returned(r2))
                              ELSE <<>>)
              returned == IF ~b[1] THEN <<>>
                          ELSE SubSeq(<<e1a, e1b>>, 1, Returned(r1)) \o
                               (IF r1.computers = <<>>
                                  THEN SubSeq(<<e2>>, 1, Returned(r2))
                                ELSE <<>>)
          IN
          /\ OneOrderPerOutcome(MatchingName(directory, h), f1a,
                                first_search_found(h, b, s))
          /\ OneOrderPerOutcome(MatchingName(directory, WithDollar(h)), f1b,
                                retry_found(h, b, s))
          /\ OneOrderPerOutcome(MatchingName(directory, WithDollar(h)), f2,
                                second_call_found(h, b, s))
          /\ pattern' = h
          /\ searches' = v.searches
          /\ lookup' = Refused(v, served).lookup
          /\ current_target' = v.current_target
          /\ replies' = returned
          /\ verified' = IF v.result THEN "True" ELSE "False"
          /\ target_before' = current_target
          /\ console' = IF ~b[1] THEN <<NotConnectedLine>>
                        ELSE printed_by_find_computers_by_pattern(r1) \o
                             (IF r1.computers = <<>>
                                THEN printed_by_find_computers_by_pattern(r2)
                              ELSE <<>>) \o
                             (IF v.result THEN <<>>
                              ELSE <<HostnameNotFoundLine>>)
          /\ pc' = IF Accepted(v) THEN "hostcommand" ELSE "hostname"
          /\ UNCHANGED <<computers, origin, selected_ou>>
  /\ UNCHANGED <<directory, op, threads, unitVars, scan, completed,
                 results_queue, results, convertVars, answer, tables,
                 csv_files, credentialVars, found_before>>

\* Lines 744-748: the command prompt ('q' leaves) and run_command_on_computer,
\* after which the loop prompts for the next hostname.
EnterHostCommand ==
  /\ pc = "hostcommand"
  /\ pc' \in {"hostname", "returned"}
  /\ UNCHANGED <<directory, op, resolverVars, current_target, threads, unitVars,
                 scan, completed, results_queue, results, convertVars, otherVars>>

\* The operation returns to the menu loop of main(); its locals are gone.
BackToMenu ==
  /\ pc \in {"reported", "returned"}
  /\ pc' = "menu"
  /\ op' = "none"
  /\ pattern' = <<>>
  /\ searches' = <<>>
  /\ lookup' = "none"
  /\ computers' = <<>>
  /\ origin' = <<>>
  /\ selected_ou' = "none"
  /\ threads' = 0
  /\ upc' = [i \in Units |-> "idle"]
  /\ error_msg' = [i \in Units |-> <<>>]
  /\ remote' = [i \in Units |-> NoResult]
  /\ sessions' = [i \in Units |-> 0]
  /\ emitted' = [i \in Units |-> <<>>]
  /\ submitted' = [i \in Units |-> 0]
  /\ scan' = 1
  /\ completed' = 0
  /\ results_queue' = <<>>
  /\ results' = <<>>
  /\ console' = <<>>
  /\ answer' = "none"
  /\ tables' = <<>>
  /\ csv_files' = <<>>
  /\ replies' = <<>>
  /\ verified' = "none"
  /\ target_before' = PyNone
  /\ UNCHANGED <<directory, current_target, convertVars, credentialVars,
                 found_before>>

Next ==
  \/ run_command_on_ou
  \/ run_command_by_pattern
  \/ Confirm
  \/ Spawn
  \/ \E i \in Units : execute_remote_command(i)
  \/ PollAlive
  \/ CountCompleted
  \/ Drain
  \/ Report
  \/ run_command_on_host
  \/ EnterHostname
  \/ EnterHostCommand
  \/ BackToMenu

Spec == Init /\ [][Next]_vars

\* The same program when every started thread keeps being scheduled until
\* it ends (a remote call returns or raises) and the main thread keeps
\* running the round it started.
FairSpec ==
  /\ Spec
  /\ \A i \in Units : WF_vars(execute_remote_command(i))
  /\ WF_vars(Spawn)
  /\ WF_vars(PollAlive)
  /\ WF_vars(CountCompleted)
  /\ WF_vars(Drain)
  /\ WF_vars(Report)

\* --------------------------------------- convert_pattern_to_ldap on its own
ConvertAlphabet == {"A", "0", "*", "-"}

ConvertInputs ==
  UNION {[1..n -> ConvertAlphabet] : n \in 0..MaxLen}

InitConvert ==
  /\ directory = {}
  /\ pc = "menu"
  /\ op = "none"
  /\ pattern = <<>>
  /\ searches = <<>>
  /\ lookup = "none"
  /\ computers = <<>>
  /\ origin = <<>>
  /\ selected_ou = "none"
  /\ current_target = PyNone
  /\ IdleRound
  /\ IdleOperator
  /\ cv_pattern \in ConvertInputs
  /\ cv_result = PyNone

Convert ==
  /\ cv_result = PyNone
  /\ cv_result' = convert_pattern_to_ldap(cv_pattern)
  /\ UNCHANGED <<directory, pc, op, resolverVars, current_target, threads,
                 unitVars, scan, completed, results_queue, results, cv_pattern,
                 otherVars>>

NextConvert == Convert

SpecConvert == InitConvert /\ [][NextConvert]_vars

\* ------------------------------- find_computers_by_pattern called twice
\* Two calls of find_computers_by_pattern with the same pattern, one after
\* the other, on a directory that does not change in between.
FindOnce ==
  /\ pc = "menu"
  /\ \E p \in Patterns, connected \in BOOLEAN, ok1 \in BOOLEAN, ok2 \in BOOLEAN,
        served1 \in BOOLEAN, served2 \in BOOLEAN :
     \E found1 \in Orders(MatchingName(directory, p)),
        found2 \in Orders(MatchingName(directory, WithDollar(p))) :
       LET r == find_computers_by_pattern(p, connected,
                                          ok1, Entries(served1, found1),
                                          ok2, Entries(served2, found2))
           served == SubSeq(<<served1, served2>>, 1, Returned(r))
       IN
       /\ SetResolved(Refused(r, served))
       /\ pattern' = p
       /\ console' = printed_by_find_computers_by_pattern(r)
  /\ pc' = "found once"
  /\ UNCHANGED <<directory, op, selected_ou, current_target, threads, unitVars,
                 scan, completed, results_queue, results, convertVars, answer,
                 tables, csv_files, credentialVars, found_before,
                 hostVars>>

FindAgain ==
  /\ pc = "found once"
  /\ \E connected \in BOOLEAN, ok1 \in BOOLEAN, ok2 \in BOOLEAN,
        served1 \in BOOLEAN, served2 \in BOOLEAN :
     \E found1 \in Orders(MatchingName(directory, pattern)),
        found2 \in Orders(MatchingName(directory, WithDollar(pattern))) :
       LET r == find_computers_by_pattern(pattern, connected,
                                          ok1, Entries(served1, found1),
                                          ok2, Entries(served2, found2))
           served == SubSeq(<<served1, served2>>, 1, Returned(r))
       IN
       /\ found_before' = computers
       /\ computers' = r.computers
       /\ origin' = r.origin
       /\ searches' = r.searches
       /\ lookup' = Worse(lookup, Refused(r, served).lookup)
       /\ console' = console \o printed_by_find_computers_by_pattern(r)
  /\ pc' = "found twice"
  /\ UNCHANGED <<directory, op, pattern, selected_ou, current_target, threads,
                 unitVars, scan, completed, results_queue, results,
                 convertVars, answer, tables, csv_files, credentialVars,
                 hostVars>>

NextResolve ==
  \/ FindOnce
  \/ FindAgain

SpecResolve == Init /\ [][NextResolve]_vars

\* ================================================================ properties
Targets == 1..Len(computers)

\* The round has left the wait loop: it is collecting, reporting or has reported.
Collecting == pc \in {"drain", "report", "reported"}
Collected == pc \in {"report", "reported"}

\* Number of outcomes with the name n in a sequence of outcomes.
CountName(outs, n) == Cardinality({k \in 1..Len(outs) : outs[k].computer = n})

\* Number of outcomes every thread has put so far.
RECURSIVE EmittedUpTo(_)
EmittedUpTo(i) == IF i = 0 THEN 0 ELSE Len(emitted[i]) + EmittedUpTo(i - 1)
TotalEmitted == EmittedUpTo(MaxRecords)

\* Thread i met an exception inside execute_remote_command: it is in a
\* handler, it died, or it ended without run_cmd having returned although
\* its target has an address.
Raised(i) ==
  \/ upc[i] \in {"inner", "outer", "dead"}
  \/ /\ upc[i] \in {"return", "finished"}
     /\ Truthy(computers[i].hostname)
     /\ remote[i] = NoResult

\* The outcome thread i owes when nothing raises.
TrueOutcome(i) ==
  IF ~Truthy(computers[i].hostname)
    THEN [computer |-> computers[i].name, status |-> "Failed",
          output |-> NoHostnameAvailable]
  ELSE IF remote[i].status_code = 0
    THEN [computer |-> computers[i].name, status |-> "Success",
          output |-> Decode(remote[i].std_out)]
  ELSE [computer |-> computers[i].name, status |-> "Failed",
        output |-> Decode(remote[i].std_err)]

\* C1: once the results queue is drained, there are as many collected
\* outcomes as targets and every target name occurs in exactly one of them.
C1_OneOutcomePerTarget ==
  Collected =>
    /\ Len(results) = Len(computers)
    /\ \A i \in Targets : CountName(results, computers[i].name) = 1

\* C2: the main thread collects and returns only after every thread has
\* ended; when the drain loop starts every outcome that was put is in the
\* queue, none is put afterwards, and the one pass collects them all.
C2_CollectsAfterAllThreadsEnded ==
  /\ pc \notin {"spawn", "wait", "count"} => \A i \in Units : ~Alive(i)
  /\ Collecting =>
       /\ \A i \in Targets : upc[i] \in {"finished", "dead"}
       /\ Len(results_queue) + Len(results) = TotalEmitted
  /\ Collected =>
       /\ results_queue = <<>>
       /\ Len(results) = TotalEmitted
       /\ \A i \in Targets : \A k \in 1..Len(emitted[i]) :
            \E j \in 1..Len(results) : results[j] = emitted[i][k]

\* Two threads have put their outcomes and ended, and the drain loop is
\* about to take them.
C2_Witness ==
  /\ pc = "drain"
  /\ threads = 2
  /\ Len(results_queue) = 2
  /\ results = <<>>

\* C3: in a reported round where exactly one thread raised, there are as
\* many outcomes as targets, every other thread's outcome is its true
\* result, and the raising thread put exactly one Failed outcome whose
\* output is a non-empty string.
C3_FailureIsolated ==
  (pc = "reported" /\ Cardinality({i \in Targets : Raised(i)}) = 1) =>
    /\ Len(results) = Len(computers)
    /\ \A i \in Targets :
         IF Raised(i)
           THEN /\ Len(emitted[i]) = 1
                /\ emitted[i][1].status = "Failed"
                /\ IsString(emitted[i][1].output)
                /\ emitted[i][1].output # <<>>
         ELSE emitted[i] = <<TrueOutcome(i)>>

\* C4: execute_remote_command always returns normally having put exactly one
\* outcome, which is Failed with a string as output in every failure mode.
C4_NeverRaisesOneOutcome ==
  \A i \in Targets :
    /\ upc[i] # "dead"
    /\ Len(emitted[i]) <= 1
    /\ upc[i] \in {"return", "finished"} => Len(emitted[i]) = 1
    /\ (upc[i] \in {"return", "finished"}
          /\ (Raised(i) \/ ~Truthy(computers[i].hostname)
                \/ remote[i].status_code > 0)) =>
         /\ emitted[i][1].status = "Failed"
         /\ IsString(emitted[i][1].output)

\* The entry carries no usable network address.
NoUsableAddress(entry) == entry.dNSHostName \in {NoAttr, PyNone, <<>>}

\* C5: for a target whose directory record has no usable address no session
\* is ever created, and its thread ends with one Failed outcome.
C5_NoAddressFailsWithoutSession ==
  \A i \in Targets :
    NoUsableAddress(origin[i]) =>
      /\ sessions[i] = 0
      /\ upc[i] \notin {"session", "run"}
      /\ upc[i] \in {"return", "finished", "dead"} =>
           /\ Len(emitted[i]) = 1
           /\ emitted[i][1].status = "Failed"

\* C6: when run_cmd returned, the thread's one outcome is Success with the
\* decoded standard output if the exit status is 0 and Failed with the
\* decoded standard error otherwise; every outcome's output is a string.
C6_ExitStatusDecides ==
  \A i \in Targets :
    /\ remote[i] # NoResult =>
         /\ Len(emitted[i]) = 1
         /\ emitted[i][1].computer = computers[i].name
         /\ (emitted[i][1].status = "Success") <=> (remote[i].status_code = 0)
         /\ (emitted[i][1].status = "Failed") <=> (remote[i].status_code # 0)
         /\ emitted[i][1].output =
              IF remote[i].status_code = 0 THEN Decode(remote[i].std_out)
              ELSE Decode(remote[i].std_err)
    /\ \A k \in 1..Len(emitted[i]) : IsString(emitted[i][k].output)

\* A reported round holds the outcome of a command that exited with status 0
\* and wrote nothing: Success with the empty string.
C6_Witness ==
  /\ pc = "reported"
  /\ \E i \in Targets :
       /\ remote[i].status_code = 0
       /\ remote[i].std_out = <<>>
       /\ remote[i].std_err # <<>>
       /\ \E j \in 1..Len(results) :
            results[j] = [computer |-> computers[i].name,
                          status |-> "Success", output |-> <<>>]

\* The last '-'-separated segment of a pattern, and what precedes it.
LastSegment(p) == SplitDash(p)[Len(SplitDash(p))]
LeadingSegments(p) == SubSeq(SplitDash(p), 1, Len(SplitDash(p)) - 1)

\* The part of a segment in front of its first double wildcard.
PrefixOfDoubleStar(seg) ==
  LET k == CHOOSE i \in 1..(Len(seg) - 1) :
             /\ seg[i] = "*" /\ seg[i + 1] = "*"
             /\ \A j \in 1..(i - 1) : ~(seg[j] = "*" /\ seg[j + 1] = "*")
  IN SubSeq(seg, 1, k - 1)

\* The rewrite the pattern policy asks for.
Rewritten(p) ==
  IF HasDoubleStar(LastSegment(p))
    THEN JoinDash(Append(LeadingSegments(p),
                         PrefixOfDoubleStar(LastSegment(p)) \o <<"*">>))
  ELSE p

\* C7: convert_pattern_to_ldap replaces a last segment that contains a
\* double wildcard by its prefix followed by one wildcard and returns every
\* other pattern unchanged.
C7_RewritesDoubleWildcard ==
  cv_result # PyNone => cv_result = Rewritten(cv_pattern)

\* C8: the name filter run_command_by_pattern sends to the directory is the
\* rewritten pattern, never the raw double-wildcard text.
C8_SearchesRewrittenPattern ==
  (op = "pattern" /\ pc = "confirm") =>
    /\ searches[1] = Rewritten(pattern)
    /\ \A k \in 1..Len(searches) : ~HasDoubleStar(LastSegment(searches[k]))

\* The computers find_computers_by_pattern builds from a set of entries,
\* as a set.
ProjectedSet(S) == {ComputerByPattern(e) : e \in S}

\* C9 as stated: whenever the literal pattern matches no record, the
\* resolver retries with '$' appended and returns the records matching the
\* suffixed name; the suffixed search is issued only after a literal search
\* that returned zero matches, and at most once per call of
\* find_computers_by_pattern; verify_hostname resolves a hostname that only
\* matches with the suffix to that record.
C9_AlwaysRetriesWithSuffix ==
  /\ (op = "pattern" /\ searches # <<>>) =>
    /\ searches[1] = pattern
    /\ Len(searches) <= 2
    /\ Len(searches) = 2 =>
         /\ searches[2] = WithDollar(pattern)
         /\ lookup # "refused" => MatchingName(directory, pattern) = {}
    /\ (lookup = "ok" /\ MatchingName(directory, pattern) = {}) =>
         /\ searches = <<pattern, WithDollar(pattern)>>
         /\ Len(computers) =
              Cardinality(MatchingName(directory, WithDollar(pattern)))
         /\ {computers[i] : i \in Targets} =
              ProjectedSet(MatchingName(directory, WithDollar(pattern)))
  /\ (op = "host" /\ searches # <<>>) =>
    /\ (lookup = "ok" /\ MatchingName(directory, pattern) = {}
          /\ MatchingName(directory, WithDollar(pattern)) # {}) =>
         /\ searches = <<pattern, WithDollar(pattern)>>
         /\ current_target \in
              ProjectedSet(MatchingName(directory, WithDollar(pattern)))

\* C9 as amended: the retry is made when the literal pattern matches no
\* record and does not already end in '$'; a pattern that ends in '$' and
\* matches nothing is searched once and resolves to nothing.
C9_RetriesWithSuffixUnlessPresent ==
  /\ (op = "pattern" /\ searches # <<>>) =>
    /\ searches[1] = pattern
    /\ Len(searches) <= 2
    /\ Len(searches) = 2 =>
         /\ searches[2] = WithDollar(pattern)
         /\ lookup # "refused" => MatchingName(directory, pattern) = {}
         /\ ~EndsWith(pattern, "$")
    /\ (lookup = "ok" /\ MatchingName(directory, pattern) = {}
          /\ ~EndsWith(pattern, "$")) =>
         /\ searches = <<pattern, WithDollar(pattern)>>
         /\ Len(computers) =
              Cardinality(MatchingName(directory, WithDollar(pattern)))
         /\ {computers[i] : i \in Targets} =
              ProjectedSet(MatchingName(directory, WithDollar(pattern)))
    /\ (lookup = "ok" /\ MatchingName(directory, pattern) = {}
          /\ EndsWith(pattern, "$")) =>
         /\ searches = <<pattern>>
         /\ computers = <<>>
  /\ (op = "host" /\ searches # <<>>) =>
    /\ (lookup = "ok" /\ MatchingName(directory, pattern) = {}
          /\ MatchingName(directory, WithDollar(pattern)) # {}) =>
         /\ searches = <<pattern, WithDollar(pattern)>>
         /\ current_target \in
              ProjectedSet(MatchingName(directory, WithDollar(pattern)))

\* "B" matches no record, "B$" matches one account name: the retry was made
\* and its one record is the target list awaiting confirmation.
C9_Witness ==
  /\ op = "pattern"
  /\ pc = "confirm"
  /\ pattern = <<"B">>
  /\ MatchingName(directory, pattern) = {}
  /\ searches = <<pattern, WithDollar(pattern)>>
  /\ Len(computers) = 1
  /\ origin[1].sAMAccountName = <<"B", "$">>

\* C10: the list find_computers_by_pattern returns is in non-decreasing
\* order of name and holds no name twice.
C10_SortedWithoutDuplicates ==
  (op = "pattern" /\ pc = "confirm") =>
    /\ \A i, j \in Targets : i < j => ~StrLess(computers[j].name, computers[i].name)
    /\ \A i, j \in Targets : i # j => computers[i].name # computers[j].name


\* The console lines that report a failed lookup to the operator.
ErrorLines == {NotConnectedLine, ErrorQueryingLine, ErrorSearchingLine}
ErrorSurfaced == \E k \in 1..Len(console) : console[k] \in ErrorLines

\* C11: in the operations on several targets, a lookup that went well and
\* matched nothing gives an empty list and no error line, while a lookup
\* that failed shows an error line to the operator and ends the operation
\* before any command is asked for or any thread started.
C11_FailedLookupSurfaced ==
  op \in {"ou", "pattern"} =>
    /\ (lookup = "ok" /\ computers = <<>>) => ~ErrorSurfaced
    /\ lookup \in {"disconnected", "raised", "refused"} =>
         /\ ErrorSurfaced
         /\ pc = "returned"
         /\ threads = 0

\* The remote call of thread i did not return: the thread came to submit
\* its command and session.run_cmd (or a line around it) raised, as it does
\* when the call times out.
TimedOut(i) == submitted[i] > 0 /\ remote[i] = NoResult

\* C12: a thread whose remote call timed out ends having put exactly one
\* outcome, Failed and for its own target; the main thread still waits
\* for every other thread, and a thread that met no exception puts the
\* outcome it owes, whatever happened to the others.
C12_TimeoutIsolated ==
  \A i \in 1..threads :
    TimedOut(i) =>
      /\ ~Alive(i) =>
           /\ Len(emitted[i]) = 1
           /\ emitted[i][1].status = "Failed"
           /\ emitted[i][1].computer = computers[i].name
      /\ pc \notin {"spawn", "wait", "count"} => \A j \in Units : ~Alive(j)
      /\ \A j \in 1..threads :
           (j # i /\ ~Raised(j) /\ ~Alive(j)) => emitted[j] = <<TrueOutcome(j)>>

\* The round has reported: one results table printed and one CSV file written.
ReportedRound ==
  /\ pc = "reported"
  /\ Len(tables) = 1
  /\ Len(csv_files) = 1

C14_OneUnitOneSubmission ==
  /\ threads <= Len(computers)
  /\ pc \in {"wait", "count", "drain", "report", "reported"} =>
       threads = Len(computers)
  /\ \A i \in Units :
       /\ i > threads => upc[i] = "idle"
       /\ sessions[i] <= 1
       /\ submitted[i] <= 1
       /\ submitted[i] <= sessions[i]

\* A thread has ended with a Failed outcome after one session and one run.
C14_Witness ==
  \E i \in 1..threads :
    /\ upc[i] = "finished"
    /\ sessions[i] = 1
    /\ submitted[i] = 1
    /\ Len(emitted[i]) = 1
    /\ emitted[i][1].status = "Failed"

\* The records the last resolver call built its computers from.
OriginSet == {origin[k] : k \in 1..Len(origin)}

\* The selected container was looked up without a failure.
ResolvedOU == op = "ou" /\ lookup = "ok"

\* C15 as stated: get_computers_in_ou returns exactly the records that are
\* direct members of the selected container, and none that sits only in a
\* container nested inside it.
C15_ReturnsDirectMembersOnly ==
  ResolvedOU =>
    /\ OriginSet = {r \in directory : r.ou = selected_ou}
    /\ Len(computers) = Cardinality(OriginSet)

\* C15 as the code has it: get_computers_in_ou returns, each once, every
\* record in the subtree of the selected container, the members of nested
\* containers included, projected to name, hostname and dn.
C15_ReturnsSubtree ==
  ResolvedOU =>
    /\ OriginSet = {r \in directory : InSubtree(r.ou, selected_ou)}
    /\ Len(computers) = Cardinality(OriginSet)
    /\ \A k \in 1..Len(computers) : computers[k] = ComputerInOU(origin[k])

\* The parent container was selected and a record of the nested container
\* is among the computers returned.
C15_Witness ==
  /\ ResolvedOU
  /\ selected_ou = "P"
  /\ \E k \in 1..Len(origin) : origin[k].ou = "C"
  /\ \E k \in 1..Len(origin) : origin[k].ou = "P"

\* C16: two calls of find_computers_by_pattern with the same pattern on an
\* unchanged directory, neither of which met a failed lookup, return the
\* same list: the same computers in the same order, whatever order the
\* directory returned its records in.
C16_SameListTwice ==
  (pc = "found twice" /\ lookup = "ok") => computers = found_before

\* A dispatch round is between its first spawn and the end of collection.
InRound == threads >= 1 /\ pc \in {"spawn", "wait", "count", "drain"}

\* C17: no step taken between the first spawn of a round and the end of its
\* collection, by a thread or by the main thread, changes the stored
\* domain_username or domain_password or any resolved target record.
C17_RoundLeavesCredentialsAndTargets ==
  [][InRound => /\ domain_username' = domain_username
                /\ domain_password' = domain_password
                /\ computers' = computers]_vars

\* A round has collected its outcomes after a thread opened a session with
\* the stored credentials, which are those connect() stored.
C17_Witness ==
  /\ pc = "report"
  /\ \E i \in 1..threads : sessions[i] = 1
  /\ domain_username = Username
  /\ domain_password = Password
  /\ computers # <<>>

\* The row the claim describes for a collected outcome: name, status, and
\* the output cut to its first 200 characters and '...' when it was longer.
ClaimedRow(result) ==
  [computer |-> result.computer, status |-> result.status,
   output |-> IF Len(result.output) > TruncateAt
                THEN SubSeq(result.output, 1, TruncateAt) \o <<".", ".", ".">>
              ELSE result.output]

\* C18: the report of a round holds exactly one table row and exactly one
\* export row per collected outcome, in the order collected, and each row,
\* of the table and of the export alike, carries the name, the status and
\* the output truncated to 200 characters followed by '...'.
C18_OneTruncatedRowPerOutcome ==
  pc = "reported" =>
    /\ Len(tables) = 1
    /\ Len(csv_files) = 1
    /\ Len(tables[1]) = Len(results)
    /\ Len(csv_files[1]) = Len(results)
    /\ \A k \in 1..Len(results) :
         /\ tables[1][k] = ClaimedRow(results[k])
         /\ csv_files[1][k] = ClaimedRow(results[k])

\* The step of the wait loop of run_command_by_pattern that prints
\* "Progress: completed/total": the count differs from the one printed last.
ProgressEvent == pc = "count" /\ completed' # completed

\* Number of threads that have ended.
Ended == Cardinality({i \in 1..threads : ~Alive(i)})

\* C19 as stated: each progress event reports a completed count larger than
\* the one before, at least 1 and below the total, and not above the number
\* of threads that have ended when it is printed.
C19_ProgressBelowTotal ==
  [][ProgressEvent => /\ completed' > completed
                      /\ 1 <= completed'
                      /\ completed' < Len(computers)
                      /\ completed' <= Ended']_vars

\* C19 as the code has it: each progress event reports a completed count
\* larger than the one before, at least 1 and at most the total, and not
\* above the number of threads that have ended when it is printed.
C19_ProgressUpToTotal ==
  [][ProgressEvent => /\ completed' > completed
                      /\ 1 <= completed'
                      /\ completed' <= Len(computers)
                      /\ completed' <= Ended']_vars

\* The wait loop has printed a progress event whose completed is the total.
C19_Witness ==
  /\ op = "pattern"
  /\ pc = "wait"
  /\ Len(computers) = 2
  /\ completed = Len(computers)

\* C20: in run_command_by_pattern a thread is started or a session opened
\* only when the resolved list is not empty and the operator answered "y";
\* after an empty match or the answer "n" the operation has returned, no
\* thread was started, no outcome exists, and no table or CSV file was made.
C20_NothingWithoutConfirmation ==
  op = "pattern" =>
    /\ (threads > 0 \/ \E i \in Units : sessions[i] > 0 \/ upc[i] # "idle") =>
         (computers # <<>> /\ answer = "y")
    /\ (computers = <<>> \/ answer = "n") =>
         /\ pc = "returned"
         /\ threads = 0
         /\ \A i \in Units : emitted[i] = <<>> /\ sessions[i] = 0
         /\ results_queue = <<>>
         /\ results = <<>>
         /\ tables = <<>>
         /\ csv_files = <<>>

\* The operator answered "n" to the confirmation for a list that is not
\* empty, and the operation returned.
C20_Witness ==
  /\ op = "pattern"
  /\ computers # <<>>
  /\ answer = "n"
  /\ pc = "returned"

\* ---------------------------------------------------------------- C21
\* The reply verify_hostname acted on: that of the last search that returned.
LastReply == replies[Len(replies)]

\* computers[0] of the list find_computers_by_pattern builds from a reply:
\* the first of its records in the order of their names.
FirstOf(reply) ==
  SortComputers([i \in 1..Len(reply) |-> ComputerByPattern(reply[i])])[1]

\* C21: in run_command_on_host the command prompt is reached only for the
\* hostname verify_hostname has just answered True for; verify_hostname
\* answers True exactly when one of its searches returned at least one
\* record, current_target is then the first record of the list built from
\* that search, and current_target is what it was before the call whenever
\* the answer is False.
C21_CommandOnlyForVerifiedHost ==
  /\ pc = "hostcommand" => verified = "True"
  /\ verified # "none" =>
       (verified = "True" <=> \E k \in DOMAIN replies : replies[k] # <<>>)
  /\ verified = "True" =>
       /\ replies # <<>>
       /\ LastReply # <<>>
       /\ current_target = FirstOf(LastReply)
  /\ verified = "False" => current_target = target_before

\* A hostname accepted on a reply of two records of which the first by name
\* was not the first returned, the command prompt being reached.
C21_Witness ==
  /\ pc = "hostcommand"
  /\ verified = "True"
  /\ replies # <<>>
  /\ Len(LastReply) = 2
  /\ ComputerByPattern(LastReply[1]).name # ComputerByPattern(LastReply[2]).name
  /\ current_target = ComputerByPattern(LastReply[2])

\* ---------------------------------------------------------------- C22
\* C22: for every pattern with at least two '-'-separated segments the
\* result of convert_pattern_to_ldap has no double wildcard in its last
\* segment, and converting the result again returns the same string.
C22_ConvertIdempotent ==
  (cv_result # PyNone /\ Len(SplitDash(cv_pattern)) >= 2) =>
    /\ ~HasDoubleStar(LastSegment(cv_result))
    /\ convert_pattern_to_ldap(cv_result) = cv_result

============================================================================
